---- MODULE Spec2Model ----
(***************************************************************************)
(* s3lib.core.S3Path: a pathlib.PosixPath subclass whose operations are    *)
(* translated into calls on an S3 object store.                            *)
(*                                                                         *)
(* Python strings are modelled as sequences of one-character strings, so   *)
(* that split, startswith, replace and the suffix/stem rules are computed  *)
(* character by character as the interpreter computes them.  A path is the *)
(* record [root, parts] that pathlib keeps (root is "", "/" or "//"; parts *)
(* are the names after the root).  The store is a function from            *)
(* <<bucket, key>> to the object's bytes.                                  *)
(***************************************************************************)
EXTENDS Integers, Sequences, FiniteSets, TLC

VARIABLES
    store,  \* the object store: <<bucket, key>> -> bytes
    last,   \* the last operation: its inputs, the store before it, the
            \* store calls it issued, how it ended and what it returned
    nops    \* the number of operations performed so far

vars == <<store, last, nops>>

(***************************************************************************)
(* Bounds of the model.                                                    *)
(***************************************************************************)
\* the most objects the store holds before the first operation
MaxObjects == 2
\* the most operations of one behaviour
MaxOps == 1

(***************************************************************************)
(* Character strings.                                                      *)
(***************************************************************************)
SLASH == <<"/">>
DOT == <<".">>
EMPTY == <<>>

\* The code point of a character: S3 lists keys in UTF-8 binary order.
Ord(c) ==
    CASE c = "." -> 46
      [] c = "/" -> 47
      [] c = "_" -> 95
      [] c = "a" -> 97
      [] c = "b" -> 98
      [] c = "c" -> 99
      [] c = "d" -> 100
      [] c = "h" -> 104
      [] c = "t" -> 116
      [] c = "v" -> 118
      [] OTHER -> 127

\* s.startswith(p)
StartsWith(s, p) ==
    /\ Len(p) <= Len(s)
    /\ SubSeq(s, 1, Len(p)) = p

\* s[i:] with a 1-based i
From(s, i) == SubSeq(s, i, Len(s))

\* s.find(sub, i): the least index >= i where sub occurs in s, 0 when none
RECURSIVE Find(_, _, _)
Find(s, sub, i) ==
    IF i + Len(sub) - 1 > Len(s) THEN 0
    ELSE IF SubSeq(s, i, i + Len(sub) - 1) = sub THEN i
    ELSE Find(s, sub, i + 1)

\* s.rfind("."): the greatest index of a dot in s, 0 when none
RECURSIVE RFindDot(_, _)
RFindDot(s, i) ==
    IF i = 0 THEN 0
    ELSE IF s[i] = "." THEN i
    ELSE RFindDot(s, i - 1)

\* s.split(sep): every piece between separators, empty pieces included
RECURSIVE Split(_, _)
Split(s, sep) ==
    LET j == Find(s, sep, 1)
    IN  IF j = 0 THEN <<s>>
        ELSE <<SubSeq(s, 1, j - 1)>> \o Split(From(s, j + Len(sep)), sep)

\* s.split(sep, 1): at most one split
Split1(s, sep) ==
    LET j == Find(s, sep, 1)
    IN  IF j = 0 THEN <<s>>
        ELSE <<SubSeq(s, 1, j - 1), From(s, j + Len(sep))>>

\* sep.join(pieces)
RECURSIVE Join(_, _)
Join(pieces, sep) ==
    IF pieces = <<>> THEN EMPTY
    ELSE IF Len(pieces) = 1 THEN pieces[1]
    ELSE pieces[1] \o sep \o Join(Tail(pieces), sep)

\* s.replace(old, new): every non-overlapping occurrence, left to right;
\* with an empty old, new is inserted before every character and at the end.
RECURSIVE ReplaceAll(_, _, _)
ReplaceAll(s, old, new) ==
    IF old = EMPTY
    THEN IF s = EMPTY THEN new
         ELSE new \o <<s[1]>> \o ReplaceAll(Tail(s), old, new)
    ELSE LET j == Find(s, old, 1)
         IN  IF j = 0 THEN s
             ELSE SubSeq(s, 1, j - 1) \o new
                      \o ReplaceAll(From(s, j + Len(old)), old, new)

\* a < b in the order S3 lists keys (code point by code point)
RECURSIVE KeyLess(_, _)
KeyLess(a, b) ==
    IF b = EMPTY THEN FALSE
    ELSE IF a = EMPTY THEN TRUE
    ELSE IF a[1] = b[1] THEN KeyLess(Tail(a), Tail(b))
    ELSE Ord(a[1]) < Ord(b[1])

\* the keys of a set as the sequence S3 returns
RECURSIVE SortKeys(_)
SortKeys(ks) ==
    IF ks = {} THEN <<>>
    ELSE LET m == CHOOSE k \in ks : \A o \in ks \ {k} : KeyLess(k, o)
         IN  <<m>> \o SortKeys(ks \ {m})

(***************************************************************************)
(* pathlib.PurePosixPath, as S3Path inherits it.                           *)
(***************************************************************************)
\* _PosixFlavour.splitroot: one or three-and-more leading slashes make the
\* root "/", exactly two make it "//".
RECURSIVE LStrip(_)
LStrip(s) ==
    IF s # EMPTY /\ s[1] = "/" THEN LStrip(Tail(s)) ELSE s

SplitRoot(part) ==
    LET rel == LStrip(part)
        n == Len(part) - Len(rel)
    IN  [root |-> IF n = 0 THEN EMPTY
                  ELSE IF n = 2 THEN SLASH \o SLASH
                  ELSE SLASH,
         rel |-> rel]

IsName(x) == x # EMPTY /\ x # DOT

\* _Flavour.parse_parts: the arguments are read from the last to the first,
\* empty and "." pieces are dropped, and an argument with a root ends the
\* reading (the arguments before it are discarded).
RECURSIVE ParseParts(_, _, _)
ParseParts(args, i, acc) ==
    IF i = 0 THEN [root |-> EMPTY, parts |-> acc]
    ELSE IF args[i] = EMPTY THEN ParseParts(args, i - 1, acc)
    ELSE LET sr == SplitRoot(args[i])
             names == SelectSeq(Split(sr.rel, SLASH), IsName)
         IN  IF sr.root # EMPTY
             THEN [root |-> sr.root, parts |-> names \o acc]
             ELSE ParseParts(args, i - 1, names \o acc)

\* S3Path(*args)
S3Path(args) == ParseParts(args, Len(args), <<>>)

\* PurePath.__str__: "." for the path with neither root nor names
PosixStr(p) ==
    IF p.root = EMPTY /\ p.parts = <<>> THEN DOT
    ELSE p.root \o Join(p.parts, SLASH)

\* PurePath.name
name(p) == IF p.parts = <<>> THEN EMPTY ELSE p.parts[Len(p.parts)]

\* PurePath.suffix: from the last dot of the name, unless that dot is the
\* first or the last character
suffix(p) ==
    LET nm == name(p)
        i == RFindDot(nm, Len(nm))
    IN  IF 1 < i /\ i < Len(nm) THEN From(nm, i) ELSE EMPTY

\* PurePath.stem
stem(p) ==
    LET nm == name(p)
        i == RFindDot(nm, Len(nm))
    IN  IF 1 < i /\ i < Len(nm) THEN SubSeq(nm, 1, i - 1) ELSE nm

\* S3Path.bucket
bucket(p) == Split1(PosixStr(p), SLASH)[1]

\* S3Path.key
key(p) ==
    LET pieces == Split1(PosixStr(p), SLASH)
        _key == IF Len(pieces) >= 2 THEN pieces[2] ELSE EMPTY
    IN  IF suffix(p) = EMPTY THEN _key \o SLASH ELSE _key

\* S3Path.__str__
S3Str(p) == ReplaceAll(<<"s", "3", ":", "/", "/">> \o PosixStr(p), <<"\\">>, SLASH)

\* S3Path.parent: the path without its last name; a path without names is
\* its own parent
parent(p) ==
    IF p.parts = <<>> THEN p
    ELSE [root |-> p.root, parts |-> SubSeq(p.parts, 1, Len(p.parts) - 1)]

\* S3Path.parents: one ancestor for every name of the path, the last one
\* holding no name at all
parents(p) ==
    [i \in 1..Len(p.parts) |->
        [root |-> p.root, parts |-> SubSeq(p.parts, 1, Len(p.parts) - i)]]

(***************************************************************************)
(* The object store behind boto3.                                          *)
(***************************************************************************)
Obj(b, k) == <<b, k>>

\* bucket.objects.filter(Prefix=prefix): the keys of the bucket that start
\* with the prefix, in the order S3 lists them
ListObjects(st, b, prefix) ==
    SortKeys({o[2] : o \in {x \in DOMAIN st :
                               x[1] = b /\ StartsWith(x[2], prefix)}})

\* bucket.objects.filter(Prefix=prefix).delete(): every listed object goes
DeleteObjects(st, b, prefix) ==
    [o \in {x \in DOMAIN st : ~(x[1] = b /\ StartsWith(x[2], prefix))}
        |-> st[o]]

\* upload_fileobj / the write half of a copy: put, overwriting
PutObject(st, b, k, body) ==
    [o \in DOMAIN st \cup {Obj(b, k)} |->
        IF o = Obj(b, k) THEN body ELSE st[o]]

HasObject(st, b, k) == Obj(b, k) \in DOMAIN st

\* the store calls an operation issues, as they are logged in last.calls
ListCall(b, prefix) == <<"list", b, prefix>>
DeleteCall(b, prefix) == <<"delete", b, prefix>>
GetCall(b, k) == <<"get", b, k>>
UploadCall(b, k, body) == <<"upload", b, k, body>>
CopyCall(sb, sk, db, dk) == <<"copy", sb, sk, db, dk>>

(***************************************************************************)
(* The listing operations of S3Path.                                       *)
(***************************************************************************)
\* S3Path.iterdir: one path per listed object, built from (bucket, key)
iterdir(st, p) ==
    LET keys == ListObjects(st, bucket(p), key(p))
    IN  [i \in 1..Len(keys) |-> S3Path(<<bucket(p), keys[i]>>)]

IterdirCalls(p) == <<ListCall(bucket(p), key(p))>>

\* S3Path.exists: membership among the ancestors of the entries listed
\* under the parent
exists(st, p) ==
    LET entries == iterdir(st, parent(p))
    IN  \E i \in 1..Len(entries) :
            \E j \in 1..Len(parents(entries[i])) : parents(entries[i])[j] = p

ExistsCalls(p) == IterdirCalls(parent(p))

\* S3Path.is_file
is_file(st, p) ==
    IF suffix(p) = EMPTY THEN FALSE
    ELSE LET entries == iterdir(st, parent(p))
         IN  \E i \in 1..Len(entries) : entries[i] = p

IsFileCalls(p) ==
    IF suffix(p) = EMPTY THEN <<>> ELSE IterdirCalls(parent(p))

(***************************************************************************)
(* S3Path.open.                                                            *)
(***************************************************************************)
\* io.BytesIO: the bytes written so far and the stream position
NewBytesIO == [buf |-> <<>>, pos |-> 0]

\* BytesIO.write at the current position
Write(file, bytes) ==
    [buf |-> SubSeq(file.buf, 1, file.pos) \o bytes
                 \o From(file.buf, file.pos + Len(bytes) + 1),
     pos |-> file.pos + Len(bytes)]

\* BytesIO.seek
Seek(file, pos) == [file EXCEPT !.pos = pos]

\* BytesIO.read(): everything from the current position on, which is what
\* upload_fileobj sends
ReadRest(file) == From(file.buf, file.pos + 1)

\* str.encode("utf-8") for code points below 2048, as the codecs stream
\* writer applies it to the text written
RECURSIVE Utf8(_)
Utf8(text) ==
    IF text = <<>> THEN <<>>
    ELSE (IF text[1] < 128 THEN <<text[1]>>
          ELSE <<192 + (text[1] \div 64), 128 + (text[1] % 64)>>)
         \o Utf8(Tail(text))

Modes == {"rb", "w", "wb"}

\* what the caller's block wrote, as bytes in the buffer
Written(mode, data) == IF mode = "w" THEN Utf8(data) ELSE data

\* a faulty variant: the upload without file.seek(0): it starts where the block
\* stopped writing
UploadBodyNoSeek(mode, data) ==
    ReadRest(Write(NewBytesIO, Written(mode, data)))

\* the bytes uploaded when the block of a write mode exits normally
UploadBody(mode, data) ==
    ReadRest(Seek(Write(NewBytesIO, Written(mode, data)), 0))

\* open("rb"): the body get_object returns is yielded to the block
OpenRead(st, p, raises) ==
    IF ~HasObject(st, bucket(p), key(p))
    THEN [store |-> st, calls |-> <<GetCall(bucket(p), key(p))>>,
          outcome |-> "StoreError", result |-> "NoSuchKey"]
    ELSE [store |-> st, calls |-> <<GetCall(bucket(p), key(p))>>,
          outcome |-> IF raises THEN "BlockError" ELSE "ok",
          result |-> st[Obj(bucket(p), key(p))]]

\* a faulty variant: the upload in a finally clause: it runs however the block ends
OpenWriteFinally(st, p, mode, data, raises) ==
    [store |-> PutObject(st, bucket(p), key(p), UploadBody(mode, data)),
     calls |-> <<UploadCall(bucket(p), key(p), UploadBody(mode, data))>>,
     outcome |-> IF raises THEN "BlockError" ELSE "ok", result |-> <<>>]

\* open("wb") and open("w"): the statements after the yield run only when
\* the block ends normally; an exception of the block is raised at the
\* yield and leaves the generator
OpenWrite(st, p, mode, data, raises) ==
    IF raises
    THEN [store |-> st, calls |-> <<>>, outcome |-> "BlockError",
          result |-> <<>>]
    ELSE [store |-> PutObject(st, bucket(p), key(p), UploadBody(mode, data)),
          calls |-> <<UploadCall(bucket(p), key(p), UploadBody(mode, data))>>,
          outcome |-> "ok", result |-> <<>>]

\* open(mode) used as a context manager around a block that writes data
\* (write modes) and either ends normally or raises
open(st, p, mode, data, raises) ==
    IF mode \notin Modes
    THEN [store |-> st, calls |-> <<>>, outcome |-> "AssertionError",
          result |-> <<>>]
    ELSE IF mode = "rb" THEN OpenRead(st, p, raises)
    ELSE OpenWrite(st, p, mode, data, raises)

(***************************************************************************)
(* S3Path.unlink, S3Path.rmdir, S3Path.copy.                               *)
(***************************************************************************)
\* a faulty variant: unlink without its assertion
unlink_no_assert(st, p) ==
    [store |-> DeleteObjects(st, bucket(p), key(p)),
     calls |-> IsFileCalls(p) \o <<DeleteCall(bucket(p), key(p))>>,
     outcome |-> "ok", result |-> <<>>]

unlink(st, p) ==
    IF ~is_file(st, p)
    THEN [store |-> st, calls |-> IsFileCalls(p),
          outcome |-> "AssertionError", result |-> <<>>]
    ELSE [store |-> DeleteObjects(st, bucket(p), key(p)),
          calls |-> IsFileCalls(p) \o <<DeleteCall(bucket(p), key(p))>>,
          outcome |-> "ok", result |-> <<>>]

\* the loop of rmdir(rm_files=False): is_file() of every entry in turn,
\* stopping at the first file
RECURSIVE RmdirCheck(_, _, _, _)
RmdirCheck(st, entries, i, calls) ==
    IF i > Len(entries) THEN [file |-> FALSE, calls |-> calls]
    ELSE IF is_file(st, entries[i])
    THEN [file |-> TRUE, calls |-> calls \o IsFileCalls(entries[i])]
    ELSE RmdirCheck(st, entries, i + 1, calls \o IsFileCalls(entries[i]))

rmdir(st, p, rm_files) ==
    LET check == RmdirCheck(st, iterdir(st, p), 1, IterdirCalls(p))
        before == IsFileCalls(p) \o ExistsCalls(p)
    IN  IF is_file(st, p)
        THEN [store |-> st, calls |-> IsFileCalls(p),
              outcome |-> "AssertionError", result |-> <<>>]
        ELSE IF ~exists(st, p)
        THEN [store |-> st, calls |-> before, outcome |-> "ok",
              result |-> <<>>]
        ELSE IF ~rm_files /\ check.file
        THEN [store |-> st, calls |-> before \o check.calls,
              outcome |-> "AssertionError", result |-> <<>>]
        ELSE [store |-> DeleteObjects(st, bucket(p), key(p)),
              calls |-> before
                          \o (IF rm_files THEN <<>> ELSE check.calls)
                          \o <<DeleteCall(bucket(p), key(p))>>,
              outcome |-> "ok", result |-> <<>>]

\* the entries copy() does not skip
Skipped(path) == StartsWith(stem(path), <<"_">>)

NotSkipped(path) == ~Skipped(path)

CopyTodo(st, p) == SelectSeq(iterdir(st, p), NotSkipped)

\* the key copy() writes an entry to
TargetKey(path, self, dst) == ReplaceAll(key(path), key(self), key(dst))

\* the key copy() reads an entry from
SourceKey(path) == key(path)

\* the loop of copy(): one client.copy per entry that is not skipped; the
\* store fails the failAt-th of them (0: none), and any copy whose source
\* object does not exist; a failure ends the loop
RECURSIVE CopyLoop(_, _, _, _, _, _, _)
CopyLoop(st, self, dst, todo, i, failAt, calls) ==
    IF i > Len(todo)
    THEN [store |-> st, calls |-> calls, outcome |-> "ok", result |-> <<>>]
    ELSE LET path == todo[i]
             call == CopyCall(bucket(path), SourceKey(path), bucket(dst),
                              TargetKey(path, self, dst))
         IN  IF i = failAt
             THEN [store |-> st, calls |-> calls \o <<call>>,
                   outcome |-> "StoreError", result |-> "Failure"]
             ELSE IF ~HasObject(st, call[2], call[3])
             THEN [store |-> st, calls |-> calls \o <<call>>,
                   outcome |-> "StoreError", result |-> "NoSuchKey"]
             ELSE CopyLoop(PutObject(st, call[4], call[5],
                                     st[Obj(call[2], call[3])]),
                           self, dst, todo, i + 1, failAt,
                           calls \o <<call>>)

\* a faulty variant: a transactional copy: a failure undoes the copies made
copy_rollback(st, p, dst, failAt) ==
    LET r == CopyLoop(st, p, dst, CopyTodo(st, p), 1, failAt, IterdirCalls(p))
    IN  IF r.outcome = "StoreError" THEN [r EXCEPT !.store = st] ELSE r

copy(st, p, dst, failAt) ==
    CopyLoop(st, p, dst, CopyTodo(st, p), 1, failAt, IterdirCalls(p))

(***************************************************************************)
(* The paths, objects and data the operations are tried on.                *)
(***************************************************************************)
BK == <<"b">>
BK2 == <<"c">>
A == <<"a">>
D == <<"d">>
VT == <<"v", ".", "t">>
HT == <<"_", "h", ".", "t">>

\* s3://b, s3://b/v.t, s3://b/a, s3://b/a/v.t, s3://b/a/a
PathPool ==
    {S3Path(<<BK>>), S3Path(<<BK, VT>>), S3Path(<<BK, A>>),
     S3Path(<<BK, A, VT>>), S3Path(<<BK, A, A>>)}

\* s3://b/d, s3://c/d
DstPool == {S3Path(<<BK, D>>), S3Path(<<BK2, D>>)}

\* the objects bucket b may hold at the start, <<key, body>>:
\* v.t, a/v.t, a/_h.t, a/a/v.t, a/a (an object without suffix) and a/a/
\* (a directory marker)
ObjectPool ==
    {<<VT, <<1>>>>,
     <<Join(<<A, VT>>, SLASH), <<2>>>>,
     <<Join(<<A, HT>>, SLASH), <<3>>>>,
     <<Join(<<A, A, VT>>, SLASH), <<4>>>>,
     <<Join(<<A, A>>, SLASH), <<5>>>>,
     <<Join(<<A, A>>, SLASH) \o SLASH, <<>>>>}

\* what a block writes: bytes in mode "wb", code points in mode "w"
DataPool(mode) ==
    IF mode = "wb" THEN {<<>>, <<104, 105>>}
    ELSE IF mode = "w" THEN {<<104, 233>>}
    ELSE {<<>>}

StoreOf(objects) ==
    [o \in {Obj(BK, x[1]) : x \in objects} |->
        (CHOOSE x \in objects : x[1] = o[2])[2]]

NoPath == S3Path(<<>>)

NoOp ==
    [op |-> "none", path |-> NoPath, mode |-> "", data |-> <<>>,
     raises |-> FALSE, rm_files |-> FALSE, dst |-> NoPath, failAt |-> 0,
     pre |-> <<>>, calls |-> <<>>, outcome |-> "ok", result |-> <<>>]

Init ==
    /\ \E objects \in SUBSET ObjectPool :
          /\ Cardinality(objects) <= MaxObjects
          /\ store = StoreOf(objects)
    /\ last = NoOp
    /\ nops = 0

\* an operation ends: the store it leaves and the record of the call
Done(rec, step) ==
    /\ nops' = nops + 1
    /\ \E r \in {step} :
          /\ store' = r.store
          /\ last' = [rec EXCEPT !.pre = store, !.calls = r.calls,
                                 !.outcome = r.outcome, !.result = r.result]

Open ==
    \E p \in PathPool, mode \in Modes \cup {"r"}, raises \in BOOLEAN :
        \E data \in DataPool(mode) :
            /\ nops < MaxOps
            /\ mode \notin {"w", "wb"} => ~raises
            /\ Done([NoOp EXCEPT !.op = "open", !.path = p, !.mode = mode,
                                 !.data = data, !.raises = raises],
                    open(store, p, mode, data, raises))

Unlink ==
    \E p \in PathPool :
        /\ nops < MaxOps
        /\ Done([NoOp EXCEPT !.op = "unlink", !.path = p], unlink(store, p))

Rmdir ==
    \E p \in PathPool, rm_files \in BOOLEAN :
        /\ nops < MaxOps
        /\ Done([NoOp EXCEPT !.op = "rmdir", !.path = p,
                             !.rm_files = rm_files],
                rmdir(store, p, rm_files))

Copy ==
    \E p \in PathPool, dst \in DstPool :
        \E failAt \in 0..Len(CopyTodo(store, p)) :
            /\ nops < MaxOps
            /\ Done([NoOp EXCEPT !.op = "copy", !.path = p, !.dst = dst,
                                 !.failAt = failAt],
                    copy(store, p, dst, failAt))

Parents ==
    \E p \in PathPool :
        /\ nops < MaxOps
        /\ Done([NoOp EXCEPT !.op = "parents", !.path = p],
                [store |-> store, calls |-> <<>>, outcome |-> "ok",
                 result |-> parents(p)])

Next ==
    \/ Open
    \/ Unlink
    \/ Rmdir
    \/ Copy
    \/ Parents

Spec == Init /\ [][Next]_vars

(***************************************************************************)
(* Properties.  Every operation records in last the store it started from  *)
(* (last.pre), its inputs, the store calls it issued and how it ended, so  *)
(* each property below is a predicate on the state an operation leaves.    *)
(***************************************************************************)
IsWrite == last.op = "open" /\ last.mode \in {"w", "wb"}

NormalWrite == IsWrite /\ ~last.raises

\* the path lies below its bucket and is not rooted
BelowBucket(p) == p.root = EMPTY /\ Len(p.parts) >= 2

\* the calls of a kind among the calls issued
CallsOf(kind) == SelectSeq(last.calls, LAMBDA c : c[1] = kind)

\* C1: bytes written through open("wb") with the block ending normally are
\* the bytes open("rb") on the same path then yields.
RoundTrip ==
    (NormalWrite /\ last.mode = "wb") =>
        LET read == open(store, last.path, "rb", <<>>, FALSE)
        IN  /\ read.outcome = "ok"
            /\ read.result = last.data

\* a non-empty byte sequence was written over an object that existed
RoundTripWitness ==
    /\ NormalWrite
    /\ last.mode = "wb"
    /\ last.data # <<>>
    /\ HasObject(last.pre, bucket(last.path), key(last.path))

\* C2 as stated: unlink() of a path that is not a file fails with the
\* assertion, issues no store call at all and leaves the store as it was.
UnlinkNoStoreCall ==
    (last.op = "unlink" /\ ~is_file(last.pre, last.path)) =>
        /\ last.outcome = "AssertionError"
        /\ last.calls = <<>>
        /\ store = last.pre

\* C2 as amended: unlink() of a path that is not a file fails with the
\* assertion, issues no delete and leaves the store as it was; its only
\* store call is the listing of the parent prefix that is_file() makes when
\* the path has a suffix, and it makes no call when the path has none.
UnlinkNoDelete ==
    (last.op = "unlink" /\ ~is_file(last.pre, last.path)) =>
        /\ last.outcome = "AssertionError"
        /\ store = last.pre
        /\ CallsOf("delete") = <<>>
        /\ last.calls =
              IF suffix(last.path) = EMPTY THEN <<>>
              ELSE <<ListCall(bucket(parent(last.path)),
                              key(parent(last.path)))>>

\* unlink() was refused on a path with a suffix while the store held
\* objects under the listed prefix
UnlinkNoDeleteWitness ==
    /\ last.op = "unlink"
    /\ last.outcome = "AssertionError"
    /\ suffix(last.path) # EMPTY
    /\ ListObjects(last.pre, bucket(parent(last.path)),
                   key(parent(last.path))) # <<>>

\* C9: in a write mode the upload happens exactly when the block ends
\* normally: then one upload of the whole buffer to (bucket, key) replaces
\* whatever was there; when the block raises nothing is uploaded and the
\* store is as before.
UploadIffNormalExit ==
    IsWrite =>
        LET body == IF last.mode = "wb" THEN last.data ELSE Utf8(last.data)
            b == bucket(last.path)
            k == key(last.path)
        IN  IF last.raises
            THEN /\ last.outcome = "BlockError"
                 /\ last.calls = <<>>
                 /\ store = last.pre
            ELSE /\ last.outcome = "ok"
                 /\ last.calls = <<UploadCall(b, k, body)>>
                 /\ DOMAIN store = DOMAIN last.pre \cup {Obj(b, k)}
                 /\ store[Obj(b, k)] = body
                 /\ \A o \in DOMAIN last.pre \ {Obj(b, k)} :
                        store[o] = last.pre[o]
                 /\ (last.mode = "w" /\ last.data = <<104, 233>>) =>
                        body = <<104, 195, 169>>

\* a block that wrote data and then raised, on a path whose object existed
UploadIffNormalExitWitness ==
    /\ IsWrite
    /\ last.raises
    /\ last.data # <<>>
    /\ HasObject(last.pre, bucket(last.path), key(last.path))

\* C10: after a normal write through open("wb") on a path below the bucket
\* whose name has a suffix, is_file() is true and unlink() is let through.
IsFileAfterWrite ==
    (NormalWrite /\ last.mode = "wb" /\ BelowBucket(last.path)
        /\ suffix(last.path) # EMPTY) =>
        /\ is_file(store, last.path)
        /\ unlink(store, last.path).outcome = "ok"

\* the path has no suffix (directory-like) and lies below its bucket
DirLike(p) == BelowBucket(p) /\ suffix(p) = EMPTY

\* the objects of st under the key prefix of p
Under(st, p) ==
    {o \in DOMAIN st : o[1] = bucket(p) /\ StartsWith(o[2], key(p))}

\* the last segment of the object's key has a suffix
FileObject(o) == suffix(S3Path(<<o[1], o[2]>>)) # EMPTY

\* C3: rmdir(rm_files=False) on a directory-like path that is not a file
\* and has a file object under its key prefix fails with the assertion and
\* leaves the store as it was.
RmdirRefusesFiles ==
    (last.op = "rmdir" /\ ~last.rm_files /\ DirLike(last.path)
        /\ ~is_file(last.pre, last.path)
        /\ \E o \in Under(last.pre, last.path) : FileObject(o)) =>
        /\ last.outcome = "AssertionError"
        /\ store = last.pre

\* C4: rmdir(rm_files=True) on a directory-like path that is not a file
\* ends without error, leaves no object under the path's key prefix and
\* leaves every other object as it was.
RmdirRemovesAll ==
    (last.op = "rmdir" /\ last.rm_files /\ DirLike(last.path)
        /\ ~is_file(last.pre, last.path)) =>
        /\ last.outcome = "ok"
        /\ Under(store, last.path) = {}
        /\ DOMAIN store = DOMAIN last.pre \ Under(last.pre, last.path)
        /\ \A o \in DOMAIN store : store[o] = last.pre[o]

\* the copy calls issued by the last operation, in order
CopyCalls == CallsOf("copy")

\* the stored keys copy() enumerates, and those whose entry it must not
\* skip (the stem of the last segment does not start with "_")
Enumerated == ListObjects(last.pre, bucket(last.path), key(last.path))

Kept ==
    SelectSeq(Enumerated,
              LAMBDA k : ~StartsWith(stem(S3Path(<<bucket(last.path), k>>)),
                                     <<"_">>))

\* C5: copy() issues one copy for every enumerated entry whose stem does
\* not start with "_" and none for the others: unless the store is made to
\* fail, it ends normally with as many copies as such entries, the i-th
\* copy being the one for the i-th of them.
CopySkipsUnderscore ==
    (last.op = "copy" /\ last.failAt = 0) =>
        /\ last.outcome = "ok"
        /\ Len(CopyCalls) = Len(Kept)
        /\ \A i \in 1..Len(CopyCalls) :
              LET entry == S3Path(<<bucket(last.path), Kept[i]>>)
              IN  /\ CopyCalls[i][2] = bucket(entry)
                  /\ CopyCalls[i][3] = key(entry)

\* C6: parents of a path below its bucket lists the ancestors from the
\* parent up to the bucket root and ends there; every one of them has the
\* bucket of the path.
ParentsEndAtBucket ==
    (last.op = "parents" /\ BelowBucket(last.path)) =>
        LET ps == last.result
        IN  /\ Len(ps) >= 1
            /\ ps[1] = parent(last.path)
            /\ \A i \in 2..Len(ps) : ps[i] = parent(ps[i - 1])
            /\ ps[Len(ps)] = S3Path(<<bucket(last.path)>>)
            /\ \A i \in 1..Len(ps) : bucket(ps[i]) = bucket(last.path)

\* C7: the copy issued for the i-th entry that is not skipped reads the
\* stored key k of that entry in the source bucket and writes, in the
\* destination bucket, the destination key followed by k without its
\* leading source-key prefix.
CopyRemapsLeadingPrefix ==
    last.op = "copy" =>
        \A i \in 1..Len(CopyCalls) :
            /\ i <= Len(Kept)
            /\ CopyCalls[i] =
                  CopyCall(bucket(last.path), Kept[i], bucket(last.dst),
                           key(last.dst)
                               \o From(Kept[i], Len(key(last.path)) + 1))

\* the store after the given copy calls were carried out in order
RECURSIVE Copied(_, _)
Copied(st, calls) ==
    IF calls = <<>> THEN st
    ELSE Copied([o \in DOMAIN st \cup {<<calls[1][4], calls[1][5]>>} |->
                    IF o = <<calls[1][4], calls[1][5]>>
                    THEN st[<<calls[1][2], calls[1][3]>>]
                    ELSE st[o]],
                Tail(calls))

\* C8: when the store fails the i-th copy of copy(), the failure reaches
\* the caller, exactly i copies were issued (none for a later entry), no
\* delete was issued, and the store holds what copies 1..i-1 wrote.
CopyNotTransactional ==
    (last.op = "copy" /\ last.failAt > 0
        /\ Len(CopyCalls) >= last.failAt) =>
        /\ last.outcome = "StoreError"
        /\ last.result = "Failure"
        /\ Len(CopyCalls) = last.failAt
        /\ CallsOf("delete") = <<>>
        /\ store = Copied(last.pre, SubSeq(CopyCalls, 1, last.failAt - 1))

\* the store failed the second copy after the first one had written a new
\* object
CopyNotTransactionalWitness ==
    /\ last.op = "copy"
    /\ last.outcome = "StoreError"
    /\ last.result = "Failure"
    /\ last.failAt = 2
    /\ DOMAIN store # DOMAIN last.pre

====
